---- MODULE Spec2Model ----
(***************************************************************************)
(* A model of the TL2-style software transactional memory of tm.cpp and    *)
(* data-structures.cpp.  Threads run transactions against one shared       *)
(* region; every access to an atomic (the global version clock gvc, a      *)
(* VersionedWriteLock word) and every load or store of a shared data word  *)
(* is one step, so that all interleavings of tm_read / tm_end are explored.*)
(***************************************************************************)
EXTENDS Integers, Naturals, Sequences, FiniteSets, TLC

(* ---------------------------- bounds ---------------------------------- *)
\* number of tm_read / tm_write calls of one transaction (one word each)
MaxOps == 2
\* number of transactions the thread of the sequential workload runs
MaxRuns == 3
\* number of tm_alloc calls of one thread
MaxAllocs == 2

(* ---------------------------- constants ------------------------------- *)
\* sizeof(word): word = uintptr_t
WordSize == 8
\* size of the lock stripe table (macros.hpp)
NUM_LOCKS == 16

\* Two workloads: two threads running one transaction each, concurrently,
\* or thread 1 alone running MaxRuns transactions one after the other.
Threads == {1, 2}
\* byte addresses of three words of the shared segment (its start is taken
\* as stripe 0): the first and the third share a stripe, the second has its own
Addrs == {0, WordSize, 2 * WordSize}
NoRead == -1
NoFin == [rv |-> NoRead, ws |-> {}, st |-> {}]

VARIABLES
    gvc,               \* atomic<version> gvc
    version_and_lock,  \* region->locks[i].version_and_lock
    mem,               \* the shared data words
    pc,                \* where each thread's transaction stands
    is_ro,             \* Transaction::is_ro
    rv,                \* Transaction::rv
    read_set,          \* Transaction::read_set
    write_set,         \* Transaction::write_set (address -> val)
    cur,               \* source_addr of the tm_read in progress
    tmp,               \* *target_addr, the word tm_read is delivering
    todo,              \* the part of the set a tm_end loop has still to visit
    locks_held,        \* tm_end's local list locks_held
    wv,                \* tm_end's local wv (the value fetch_add returned)
    ret,               \* the last value tm_read / tm_write / tm_end returned
    nops,              \* tm_read / tm_write calls made by the transaction
    runs,              \* tm_begin calls each thread has still to make
    got,               \* history: words a read-only transaction was delivered
    snap,              \* history: the shared words as of the transaction's rv
    fin,               \* history: rv, written and stored addresses of a tm_end
    seen,              \* history: the version each lock showed after its last unlock
    list_lock,         \* region->list_lock->version_and_lock
    seg_list,          \* region->seg_list
    apc,               \* where each thread's tm_alloc call stands
    aret,              \* the last value tm_alloc returned
    allocs             \* tm_alloc calls each thread has still to make

\* what tm_begin, tm_read, tm_write and tm_end work on
txvars == <<gvc, version_and_lock, mem, pc, is_ro, rv, read_set, write_set,
            cur, tmp, todo, locks_held, wv, ret, nops, runs, got, snap, fin,
            seen>>

\* what tm_alloc works on
allocvars == <<list_lock, seg_list, apc, aret, allocs>>

vars == <<txvars, allocvars>>

(* ------------------------ VersionedWriteLock --------------------------- *)
\* &txn->region->locks[(word)target_addr % NUM_LOCKS]
lockIndex(a) == a % NUM_LOCKS

Stripes == {lockIndex(a) : a \in Addrs}

\* getVersion(): version_and_lock.load() >> 1
getVersion(w) == w \div 2

\* isLocked(): version_and_lock.load() & 1
isLocked(w) == (w % 2) = 1

\* lock(): expected = version_and_lock.load() & ~1
\* a faulty lock() whose expected word is the word as loaded, lock bit and all
lockAnyWord(w) == w

\* a faulty lock() whose exchange succeeds whatever the word holds
lockAlways(w) == TRUE

lockExpected(w) == w - (w % 2)

\* lock(): desired = expected | 1
lockDesired(w) == lockExpected(w) + 1

\* lock(): compare_exchange_weak(expected, desired) can succeed on word w
\* only when w equals expected
lockSucceeds(w) == w = lockExpected(w)

\* unlock(): (current & ~1u) + 2.  The mask ~1u is 32 bits wide; the words
\* of this model stay far below 2^32, where it only clears the lock bit
\* a faulty unlock() that clears the lock bit and leaves the version
unlockKeep(current) == current - (current % 2)

unlockValue(current) == (current - (current % 2)) + 2

\* setVersion(v): v << 1 | 1
setVersionValue(v) == (2 * v) + 1

\* validateRead(shared, addr, bound) of helpers.hpp: the stripe of addr is
\* unlocked and its version is at most bound
validateRead(a, bound) ==
    LET w == version_and_lock[lockIndex(a)]
    IN  ~isLocked(w) /\ getVersion(w) <= bound

(* ------------------------------ Init ----------------------------------- *)
EmptyMap == [x \in {} |-> 0]
NoReads == [a \in Addrs |-> NoRead]

\* tm_create: zeroed segment, locks constructed with version_and_lock{0},
\* gvc{0}; no transaction yet
Init ==
    /\ gvc = 0
    /\ version_and_lock = [s \in Stripes |-> 0]
    /\ mem = [a \in Addrs |-> 0]
    /\ pc = [t \in Threads |-> "idle"]
    /\ is_ro = [t \in Threads |-> FALSE]
    /\ rv = [t \in Threads |-> 0]
    /\ read_set = [t \in Threads |-> {}]
    /\ write_set = [t \in Threads |-> EmptyMap]
    /\ cur = [t \in Threads |-> 0]
    /\ tmp = [t \in Threads |-> 0]
    /\ todo = [t \in Threads |-> {}]
    /\ locks_held = [t \in Threads |-> <<>>]
    /\ wv = [t \in Threads |-> 0]
    /\ ret = [t \in Threads |-> "none"]
    /\ nops = [t \in Threads |-> 0]
    /\ runs \in {[t \in Threads |-> 1],
                 [t \in Threads |-> IF t = 1 THEN MaxRuns ELSE 0]}
    /\ got = [t \in Threads |-> NoReads]
    /\ snap = [t \in Threads |-> [a \in Addrs |-> 0]]
    /\ fin = [t \in Threads |-> NoFin]
    /\ seen = [s \in Stripes |-> 0]
    /\ list_lock = 0
    /\ seg_list = <<>>
    /\ apc = [t \in Threads |-> "idle"]
    /\ aret = [t \in Threads |-> "none"]
    /\ allocs = [t \in Threads |-> MaxAllocs]

(* ------------------------------ tm_begin -------------------------------- *)
\* new Transaction(gvc.load(), region, is_ro): empty read and write sets.
\* Threads are interchangeable: thread 2 starts after thread 1 has started.
tm_begin(t, ro) ==
    /\ pc[t] \in {"idle", "committed", "aborted"}
    /\ \A u \in Threads : u < t => pc[u] # "idle"
    /\ runs[t] > 0
    /\ runs' = [runs EXCEPT ![t] = @ - 1]
    /\ rv' = [rv EXCEPT ![t] = gvc]
    /\ is_ro' = [is_ro EXCEPT ![t] = ro]
    /\ pc' = [pc EXCEPT ![t] = "active"]
    /\ ret' = [ret EXCEPT ![t] = "none"]
    /\ snap' = [snap EXCEPT ![t] = mem]
    /\ fin' = [fin EXCEPT ![t] = NoFin]
    /\ UNCHANGED <<gvc, version_and_lock, mem, read_set, write_set, cur, tmp,
                   todo, locks_held, wv, nops, got, seen>>
    /\ UNCHANGED allocvars

\* the transaction is over (tm_read or tm_end returned r): its context is
\* dead, and the model forgets it
Return(t, to, r) ==
    /\ pc' = [pc EXCEPT ![t] = to]
    /\ ret' = [ret EXCEPT ![t] = r]
    /\ rv' = [rv EXCEPT ![t] = 0]
    /\ is_ro' = [is_ro EXCEPT ![t] = FALSE]
    /\ read_set' = [read_set EXCEPT ![t] = {}]
    /\ write_set' = [write_set EXCEPT ![t] = EmptyMap]
    /\ cur' = [cur EXCEPT ![t] = 0]
    /\ tmp' = [tmp EXCEPT ![t] = 0]
    /\ todo' = [todo EXCEPT ![t] = {}]
    /\ wv' = [wv EXCEPT ![t] = 0]
    /\ nops' = [nops EXCEPT ![t] = 0]
    /\ got' = [got EXCEPT ![t] = NoReads]
    /\ snap' = [snap EXCEPT ![t] = [a \in Addrs |-> 0]]

(* ------------------------------ tm_write -------------------------------- *)
\* write_set.insert_or_assign(target_addr, WriteOperation(source_addr, val))
\* a faulty tm_write that inserts only: an address already buffered keeps
\* the value of its first write
insertOnly(ws, a, v) ==
    [x \in (DOMAIN ws) \cup {a} |-> IF x \in DOMAIN ws THEN ws[x] ELSE v]

insert_or_assign(ws, a, v) ==
    [x \in (DOMAIN ws) \cup {a} |-> IF x = a THEN v ELSE ws[x]]

\* the word the embedder hands to tm_write: non-zero, different from the
\* words the other thread writes and from every word the write set holds
SourceVal(t) == (MaxOps * (t - 1)) + Cardinality(DOMAIN write_set[t]) + 1

\* tm_write of one word: buffers the value and returns true
tm_write(t, a) ==
    /\ pc[t] = "active"
    /\ ~is_ro[t]
    /\ nops[t] < MaxOps
    /\ nops' = [nops EXCEPT ![t] = @ + 1]
    /\ write_set' = [write_set EXCEPT ![t] = insert_or_assign(@, a, SourceVal(t))]
    /\ ret' = [ret EXCEPT ![t] = TRUE]
    /\ UNCHANGED <<gvc, version_and_lock, mem, pc, is_ro, rv, read_set, cur,
                   tmp, todo, locks_held, wv, runs, got, snap, fin, seen>>
    /\ UNCHANGED allocvars

(* ------------------------------ tm_read --------------------------------- *)
\* a tm_read of one word returns true: the word in tmp has been delivered
ReadDone(t) ==
    /\ pc' = [pc EXCEPT ![t] = "active"]
    /\ ret' = [ret EXCEPT ![t] = TRUE]
    /\ cur' = [cur EXCEPT ![t] = 0]
    /\ tmp' = [tmp EXCEPT ![t] = 0]

\* read-only path, *target_addr = *source_addr
RoLoad(t, a) ==
    /\ pc[t] = "active"
    /\ is_ro[t]
    /\ nops[t] < MaxOps
    /\ nops' = [nops EXCEPT ![t] = @ + 1]
    /\ cur' = [cur EXCEPT ![t] = a]
    /\ tmp' = [tmp EXCEPT ![t] = mem[a]]
    /\ pc' = [pc EXCEPT ![t] = "ro_post"]
    /\ UNCHANGED <<gvc, version_and_lock, mem, is_ro, rv, read_set, write_set,
                   todo, locks_held, wv, ret, runs, got, snap, fin, seen>>
    /\ UNCHANGED allocvars

\* read-only path, postvalidate read; on failure delete txn, return false
RoPost(t) ==
    /\ pc[t] = "ro_post"
    /\ IF validateRead(cur[t], rv[t])
         THEN /\ ReadDone(t)
              /\ got' = [got EXCEPT ![t][cur[t]] = tmp[t]]
              /\ UNCHANGED <<rv, is_ro, read_set, write_set, todo, wv, nops,
                             snap>>
         ELSE Return(t, "aborted", FALSE)
    /\ UNCHANGED <<gvc, version_and_lock, mem, locks_held, runs, fin, seen>>
    /\ UNCHANGED allocvars

\* read-write path, prevalidate read; on failure delete txn, return false
RwPre(t, a) ==
    /\ pc[t] = "active"
    /\ ~is_ro[t]
    /\ nops[t] < MaxOps
    /\ IF validateRead(a, rv[t])
         THEN /\ pc' = [pc EXCEPT ![t] = "rw_load"]
              /\ cur' = [cur EXCEPT ![t] = a]
              /\ nops' = [nops EXCEPT ![t] = @ + 1]
              /\ UNCHANGED <<ret, rv, is_ro, read_set, write_set, tmp, todo,
                             wv, got, snap>>
         ELSE Return(t, "aborted", FALSE)
    /\ UNCHANGED <<gvc, version_and_lock, mem, locks_held, runs, fin, seen>>
    /\ UNCHANGED allocvars

\* read-write path, the word comes from the write set or from shared memory
RwLoad(t) ==
    /\ pc[t] = "rw_load"
    /\ tmp' = [tmp EXCEPT ![t] = IF cur[t] \in DOMAIN write_set[t]
                                   THEN write_set[t][cur[t]]
                                   ELSE mem[cur[t]]]
    /\ pc' = [pc EXCEPT ![t] = "rw_post"]
    /\ UNCHANGED <<gvc, version_and_lock, mem, is_ro, rv, read_set, write_set,
                   cur, todo, locks_held, wv, ret, nops, runs, got, snap, fin, seen>>
    /\ UNCHANGED allocvars

\* read-write path, postvalidate read and read_set.insert(source_addr)
RwPost(t) ==
    /\ pc[t] = "rw_post"
    /\ IF validateRead(cur[t], rv[t])
         THEN /\ ReadDone(t)
              /\ read_set' = [read_set EXCEPT ![t] = @ \cup {cur[t]}]
              /\ UNCHANGED <<rv, is_ro, write_set, todo, wv, nops, got, snap>>
         ELSE Return(t, "aborted", FALSE)
    /\ UNCHANGED <<gvc, version_and_lock, mem, locks_held, runs, fin, seen>>
    /\ UNCHANGED allocvars

(* ------------------------------- tm_end --------------------------------- *)
\* the value tm_end returns after "Transaction successful, cleanup and return"
tmEndCommitReturn == FALSE

\* the value tm_end returns after freeHeldLocks on a failed lock or validation
tmEndAbortReturn == FALSE

\* the bound tm_end hands to validateRead for the read set
validateBound(t) == wv[t] + 1

\* the write-set entries loop (3) has still to lock; tm_end starts with all
LockTodo(t) == IF pc[t] = "active" THEN DOMAIN write_set[t] ELSE todo[t]

\* tm_end stands in loop (3): it was just called, or has entries left
InLockLoop(t) ==
    \/ pc[t] = "lock"
    \/ pc[t] = "active" /\ DOMAIN write_set[t] # {}

\* tm_end stands at (4): loop (3) is over, or the write set was empty
AtTick(t) ==
    \/ pc[t] = "tick"
    \/ pc[t] = "active" /\ DOMAIN write_set[t] = {}

\* if (!lock->lock()) { freeHeldLocks(locks_held); return false; }
\* and the same on a failed validateRead: what tm_end does next
\* a faulty tm_end that stays in loop (3) to try the lock again
waitPc(held) == "lock"

\* a faulty tm_end that returns false without freeing the locks it holds
dropPc(held) == "aborted"

failPc(held) == IF held = <<>> THEN "aborted" ELSE "rel_abort"

\* phase (6) once the read set is validated: the stores, if there are any
CommitPhase(t) ==
    IF DOMAIN write_set[t] # {} THEN "store" ELSE "committed"

\* tm_end moves on to pc value to, its loop set becoming td; reaching
\* "aborted" or "committed" it returns.  What tm_end no longer reads is
\* forgotten: the call count and the read history from the start, the read
\* set and rv once validated, the whole context when only the locks are
\* left to free.
Goto(t, to, td) ==
    IF to = "aborted" THEN Return(t, to, tmEndAbortReturn)
    ELSE IF to = "committed" THEN Return(t, to, tmEndCommitReturn)
    ELSE /\ pc' = [pc EXCEPT ![t] = to]
         /\ todo' = [todo EXCEPT ![t] = td]
         /\ got' = [got EXCEPT ![t] = NoReads]
         /\ nops' = [nops EXCEPT ![t] = 0]
         /\ read_set' = [read_set EXCEPT ![t] =
                            IF to \in {"lock", "tick", "validate"} THEN @ ELSE {}]
         /\ rv' = [rv EXCEPT ![t] =
                      IF to \in {"lock", "tick", "validate"} THEN @ ELSE 0]
         /\ snap' = [snap EXCEPT ![t] =
                        IF to \in {"lock", "tick", "validate"} THEN @
                        ELSE [a \in Addrs |-> 0]]
         /\ write_set' = [write_set EXCEPT ![t] =
                             IF to \in {"rel_commit", "rel_abort"} THEN EmptyMap
                             ELSE @]
         /\ is_ro' = [is_ro EXCEPT ![t] =
                         IF to \in {"rel_commit", "rel_abort"} THEN FALSE ELSE @]
         /\ UNCHANGED <<ret, cur, tmp>>

\* what the history keeps of a tm_end call: rv, the addresses written and,
\* filled in by (6), the addresses stored to
EndInfo(t) ==
    IF pc[t] = "active"
      THEN [rv |-> rv[t], ws |-> DOMAIN write_set[t], st |-> {}]
      ELSE fin[t]

\* (3) lock->lock() taken for the next entry of the write set
EndLockTaken(t, a) ==
    /\ InLockLoop(t)
    /\ a \in LockTodo(t)
    /\ lockSucceeds(version_and_lock[lockIndex(a)])
    /\ version_and_lock' = [version_and_lock EXCEPT ![lockIndex(a)] = lockDesired(@)]
    /\ locks_held' = [locks_held EXCEPT ![t] = Append(@, lockIndex(a))]
    /\ Goto(t, IF LockTodo(t) = {a} THEN "tick" ELSE "lock", LockTodo(t) \ {a})
    /\ UNCHANGED <<gvc, mem, wv, runs>>
    /\ fin' = [fin EXCEPT ![t] = EndInfo(t)]
    /\ UNCHANGED seen
    /\ UNCHANGED allocvars

\* (3) lock->lock() fails: the stripe is locked, or compare_exchange_weak
\* fails spuriously; the locks held so far are freed and tm_end returns false
EndLockFailed(t, a) ==
    /\ InLockLoop(t)
    /\ a \in LockTodo(t)
    /\ Goto(t, failPc(locks_held[t]), {})
    /\ IF failPc(locks_held[t]) = "aborted" THEN TRUE ELSE UNCHANGED wv
    /\ UNCHANGED <<gvc, version_and_lock, mem, locks_held, runs>>
    /\ fin' = [fin EXCEPT ![t] = EndInfo(t)]
    /\ UNCHANGED seen
    /\ UNCHANGED allocvars

\* a faulty tick that leaves the clock as it is
fetchAddNone(g) == g

\* the clock after gvc.fetch_add(1); the old value is what the call returns
fetchAddNew(g) == g + 1

\* (4) version wv = gvc.fetch_add(1)
EndTick(t) ==
    /\ AtTick(t)
    /\ gvc' = fetchAddNew(gvc)
    /\ LET to == IF read_set[t] # {} THEN "validate" ELSE CommitPhase(t)
       IN  /\ Goto(t, to, IF to = "validate" THEN read_set[t]
                          ELSE DOMAIN write_set[t])
           /\ IF to = "committed" THEN TRUE
              ELSE wv' = [wv EXCEPT ![t] = gvc]
    /\ UNCHANGED <<version_and_lock, mem, locks_held, runs>>
    /\ fin' = [fin EXCEPT ![t] = EndInfo(t)]
    /\ UNCHANGED seen
    /\ UNCHANGED allocvars

\* (5) validateRead(shared, read, wv + 1) for the next entry of the read set
EndValidate(t, a) ==
    /\ pc[t] = "validate"
    /\ a \in todo[t]
    /\ LET to == IF ~validateRead(a, validateBound(t)) THEN failPc(locks_held[t])
                 ELSE IF todo[t] = {a} THEN CommitPhase(t)
                 ELSE "validate"
       IN  /\ Goto(t, to, IF to = "validate" THEN todo[t] \ {a}
                          ELSE IF to = "store" THEN DOMAIN write_set[t]
                          ELSE {})
           /\ IF to \in {"aborted", "committed"} THEN TRUE
              ELSE wv' = [wv EXCEPT ![t] = IF to = "rel_abort" THEN 0 ELSE @]
    /\ UNCHANGED <<gvc, version_and_lock, mem, locks_held, runs>>
    /\ fin' = [fin EXCEPT ![t] = EndInfo(t)]
    /\ UNCHANGED seen
    /\ UNCHANGED allocvars

\* thread u has a transaction that has not validated its read set yet
Reading(u) ==
    pc[u] \in {"active", "ro_post", "rw_load", "rw_post", "lock", "tick",
               "validate"}

\* (6) *target_addr = val; lock->setVersion(wv) for the next write-set entry
EndStore(t, a) ==
    /\ pc[t] = "store"
    /\ a \in todo[t]
    /\ mem' = [mem EXCEPT ![a] = write_set[t][a]]
    /\ version_and_lock' = [version_and_lock EXCEPT ![lockIndex(a)] =
                               setVersionValue(wv[t])]
    /\ pc' = [pc EXCEPT ![t] = IF todo[t] = {a} THEN "rel_commit" ELSE "store"]
    /\ todo' = [todo EXCEPT ![t] = @ \ {a}]
    /\ write_set' = [write_set EXCEPT ![t] = IF todo[t] = {a} THEN EmptyMap ELSE @]
    /\ snap' = [u \in Threads |->
                  IF u # t /\ Reading(u) /\ wv[t] + 1 <= rv[u]
                    THEN [snap[u] EXCEPT ![a] = write_set[t][a]]
                    ELSE snap[u]]
    /\ fin' = [fin EXCEPT ![t].st = @ \cup {a}]
    /\ UNCHANGED <<gvc, locks_held, runs, ret, rv, is_ro, read_set, cur, tmp,
                   nops, got, seen, wv>>
    /\ UNCHANGED allocvars

\* freeHeldLocks(locks_held) of helpers.hpp: unlock() of each held lock in
\* turn; after the last one tm_end returns (delete txn on the commit path)
EndRelease(t) ==
    /\ pc[t] \in {"rel_commit", "rel_abort"}
    /\ locks_held[t] # <<>>
    /\ version_and_lock' = [version_and_lock EXCEPT ![Head(locks_held[t])] =
                               unlockValue(@)]
    /\ locks_held' = [locks_held EXCEPT ![t] = Tail(@)]
    /\ IF Len(locks_held[t]) > 1
         THEN UNCHANGED <<pc, ret, rv, is_ro, read_set, write_set, cur, tmp,
                          todo, wv, nops, got, snap>>
         ELSE Goto(t, IF pc[t] = "rel_commit" THEN "committed" ELSE "aborted",
                   {})
    /\ UNCHANGED <<gvc, mem, runs>>
    /\ fin' = [fin EXCEPT ![t] = EndInfo(t)]
    /\ seen' = [seen EXCEPT ![Head(locks_held[t])] =
                   getVersion(unlockValue(version_and_lock[Head(locks_held[t])]))]
    /\ UNCHANGED allocvars

(* ------------------------------ tm_alloc -------------------------------- *)
\* tm_alloc uses the region's list_lock and seg_list and nothing of the
\* transaction (its tx parameter is unused), and no other operation touches
\* those two: its steps are explored on their own, in AllocSpec.

\* aligned_alloc returns null: tm_alloc returns nomem
AllocNoMem(t) ==
    /\ apc[t] = "idle"
    /\ allocs[t] > 0
    /\ allocs' = [allocs EXCEPT ![t] = @ - 1]
    /\ aret' = [aret EXCEPT ![t] = "nomem"]
    /\ UNCHANGED <<list_lock, seg_list, apc>>
    /\ UNCHANGED txvars

\* region->list_lock->lock() taken, with a segment allocated
AllocLockTaken(t) ==
    /\ apc[t] = "idle"
    /\ allocs[t] > 0
    /\ lockSucceeds(list_lock)
    /\ list_lock' = lockDesired(list_lock)
    /\ allocs' = [allocs EXCEPT ![t] = @ - 1]
    /\ apc' = [apc EXCEPT ![t] = "push"]
    /\ aret' = [aret EXCEPT ![t] = "none"]
    /\ UNCHANGED seg_list
    /\ UNCHANGED txvars

\* region->list_lock->lock() fails (the lock is held, or the weak exchange
\* fails spuriously): return Alloc::abort
AllocLockFailed(t) ==
    /\ apc[t] = "idle"
    /\ allocs[t] > 0
    /\ allocs' = [allocs EXCEPT ![t] = @ - 1]
    /\ aret' = [aret EXCEPT ![t] = "abort"]
    /\ UNCHANGED <<list_lock, seg_list, apc>>
    /\ UNCHANGED txvars

\* region->seg_list.push_back(new_seg); the segment is named by its thread
AllocPush(t) ==
    /\ apc[t] = "push"
    /\ seg_list' = Append(seg_list, t)
    /\ apc' = [apc EXCEPT ![t] = "unlock"]
    /\ UNCHANGED <<list_lock, aret, allocs>>
    /\ UNCHANGED txvars

\* region->list_lock->unlock(); memset; *target = new_seg; return success
AllocUnlock(t) ==
    /\ apc[t] = "unlock"
    /\ list_lock' = unlockValue(list_lock)
    /\ apc' = [apc EXCEPT ![t] = "idle"]
    /\ aret' = [aret EXCEPT ![t] = "success"]
    /\ UNCHANGED <<seg_list, allocs>>
    /\ UNCHANGED txvars

(* ---------------------------- specification ----------------------------- *)
\* the steps of thread t
Step(t) ==
    \/ \E ro \in BOOLEAN : tm_begin(t, ro)
    \/ \E a \in Addrs : tm_write(t, a)
    \/ \E a \in Addrs : RoLoad(t, a)
    \/ RoPost(t)
    \/ \E a \in Addrs : RwPre(t, a)
    \/ RwLoad(t)
    \/ RwPost(t)
    \/ \E a \in Addrs : EndLockTaken(t, a)
    \/ \E a \in Addrs : EndLockFailed(t, a)
    \/ EndTick(t)
    \/ \E a \in Addrs : EndValidate(t, a)
    \/ \E a \in Addrs : EndStore(t, a)
    \/ EndRelease(t)

Next == \E t \in Threads : Step(t)

Spec == Init /\ [][Next]_vars

\* the steps of tm_alloc of thread t
AllocStep(t) ==
    \/ AllocNoMem(t)
    \/ AllocLockTaken(t)
    \/ AllocLockFailed(t)
    \/ AllocPush(t)
    \/ AllocUnlock(t)

AllocNext == \E t \in Threads : AllocStep(t)

\* the threads calling tm_alloc, no transaction operation under way
AllocSpec == Init /\ [][AllocNext]_vars

(* ============================== properties ============================== *)
\* the transaction of thread t is over
Terminal(t) == pc[t] \in {"committed", "aborted"}

\* the transaction of thread t ended in a tm_end call
Ended(t) == Terminal(t) /\ fin[t] # NoFin

\* the thread whose tm_write was handed the non-zero word v
Writer(v) == ((v - 1) \div MaxOps) + 1

(* C1: tm_end returns true exactly when the transaction committed and     *)
(* false exactly when it aborted.                                         *)
C1_EndReturnsOutcome ==
    \A t \in Threads :
        Ended(t) => (ret[t] = TRUE <=> pc[t] = "committed")

(* C2: every tm_read that returns true and takes its value from shared    *)
(* memory delivers the value of the last committed write to that address  *)
(* with write-version <= rv (zero if there is none).                      *)
C2_ReadConsistency ==
    [][\A t \in Threads :
          /\ pc[t] \in {"ro_post", "rw_post"}
          /\ pc'[t] = "active"
          /\ cur[t] \notin DOMAIN write_set[t]
          => tmp[t] = snap[t][cur[t]]]_vars

(* C2 on the read-write path alone: a read that passed both validations.  *)
C2_ReadWritePath ==
    [][\A t \in Threads :
          /\ pc[t] = "rw_post"
          /\ pc'[t] = "active"
          /\ cur[t] \notin DOMAIN write_set[t]
          => tmp[t] = snap[t][cur[t]]]_vars

(* C3: a read-only transaction that was delivered a writer's value at one *)
(* address and has also read another address that writer stored to was    *)
(* delivered the writer's value there too, never the earlier one.         *)
C3_AtomicVisibility ==
    \A t \in Threads : \A a, b \in Addrs :
        /\ a # b
        /\ pc[t] = "active"
        /\ got[t][a] # NoRead /\ got[t][a] # 0
        /\ got[t][b] # NoRead
        /\ mem[b] # 0 /\ Writer(mem[b]) = Writer(got[t][a])
        => got[t][b] = mem[b]

(* C4: a transaction whose tm_read or tm_end reported abort (returned     *)
(* false) stored nothing to shared memory.                                *)
C4_AbortHasNoEffect ==
    \A t \in Threads :
        Terminal(t) /\ ret[t] = FALSE => fin[t].st = {}

\* the read-set entries the step of tm_end in progress has just validated
JustValidated(t) ==
    IF pc[t] # "validate" THEN {}
    ELSE IF pc'[t] = "validate" THEN todo[t] \ todo'[t]
    ELSE IF pc'[t] \in {"store", "committed"} THEN todo[t]
    ELSE {}

(* C5: tm_end passes the validation of a read-set entry only if no write  *)
(* to that address with a write-version greater than rv has been stored;  *)
(* otherwise it aborts in phase (5).                                      *)
C5_ReadInvalidation ==
    [][\A t \in Threads : \A a \in JustValidated(t) :
          mem[a] = snap[t][a]]_vars

\* tm_end of thread t holds the locks of its whole write set: (4), (5), (6)
HoldsAll(t) == pc[t] \in {"tick", "validate", "store"}

\* the stripes of a set of addresses
StripesOf(as) == {lockIndex(a) : a \in as}

InEnd(t) ==
    pc[t] \in {"lock", "tick", "validate", "store", "rel_commit", "rel_abort"}

\* an upper bound on the steps tm_end of thread t has still to take
Rank(t) ==
    LET M == MaxOps + 1
    IN  CASE pc[t] = "lock" -> (4 * M) + Cardinality(todo[t])
          [] pc[t] = "tick" -> 4 * M
          [] pc[t] = "validate" -> (2 * M) + Cardinality(todo[t])
          [] pc[t] = "store" -> M + Cardinality(todo[t])
          [] pc[t] \in {"rel_commit", "rel_abort"} -> Len(locks_held[t])
          [] OTHER -> 0

(* C7: a thread inside tm_end can always take its next step, whatever the *)
(* other threads hold (it never waits for a lock), and each of its steps  *)
(* brings it closer to the return, so the call ends after finitely many   *)
(* of its own steps.                                                      *)
C7_DeadlockFreedom ==
    /\ [](\A t \in Threads : InEnd(t) => ENABLED <<Step(t)>>_vars)
    /\ [][\A t \in Threads :
             InEnd(t) /\ <<pc[t], todo[t], locks_held[t]>>'
                            # <<pc[t], todo[t], locks_held[t]>>
             => Rank(t)' < Rank(t)]_vars

\* a tm_end call found a stripe locked by the other thread and is on its way
\* out, freeing the locks it had taken
C7_Witness ==
    \E t, u \in Threads :
        /\ t # u
        /\ pc[t] = "rel_abort"
        /\ pc[u] = "store"
        /\ StripesOf(fin[t].ws) \cap StripesOf(fin[u].ws) # {}

\* the threads that have stripe s in their locks_held
Holders(s) ==
    {t \in Threads : \E i \in 1..Len(locks_held[t]) : locks_held[t][i] = s}

(* C8: every versioned write lock is held by at most one transaction, its *)
(* lock bit is set exactly while a transaction holds it, and tm_end calls *)
(* setVersion and unlock only on locks it holds.                          *)
C8_MutualExclusion ==
    /\ \A s \in Stripes :
          /\ Cardinality(Holders(s)) <= 1
          /\ isLocked(version_and_lock[s]) <=> Holders(s) # {}
    /\ \A t \in Threads :
          /\ \A i, j \in 1..Len(locks_held[t]) :
                locks_held[t][i] = locks_held[t][j] => i = j
          /\ pc[t] = "store" =>
                \A a \in todo[t] : t \in Holders(lockIndex(a))

\* one tm_end is storing under its lock while the other thread's tm_end stands
\* in loop (3) with an address of that very stripe still to lock
C8_Witness ==
    \E t, u \in Threads :
        /\ t # u
        /\ pc[t] = "store"
        /\ pc[u] = "lock"
        /\ \E a \in todo[u] : t \in Holders(lockIndex(a))

(* C9: the version a lock shows after an unlock is never lower than the   *)
(* version it showed after an earlier unlock.                             *)
C9_VersionMonotonic ==
    [][\A s \in Stripes : seen'[s] >= seen[s]]_vars

(* C10: in a read-write transaction a tm_read of an address of its own    *)
(* write set, once the address is taken, returns true with the buffered   *)
(* value, whatever the state of the stripe.                               *)
C10_ReadOwnWrite ==
    [][\A t \in Threads :
          /\ pc[t] \in {"rw_load", "rw_post"}
          /\ cur[t] \in DOMAIN write_set[t]
          => /\ pc'[t] # "aborted"
             /\ pc[t] = "rw_post" /\ pc'[t] = "active"
                => tmp[t] = write_set[t][cur[t]]]_vars

\* the step is a tm_write call of thread t
IsWrite(t) ==
    /\ pc[t] = "active" /\ pc'[t] = "active"
    /\ ~is_ro[t]
    /\ nops'[t] = nops[t] + 1

(* C11: after a tm_write the write set holds one entry for the address,   *)
(* with the value of this last write, and the other entries as they were; *)
(* a store of tm_end puts the buffered value into the shared word and     *)
(* changes no other word.                                                 *)
C11_LastWriterWins ==
    [][/\ \A a \in Addrs :
             mem'[a] # mem[a] =>
                \E t \in Threads : a \in fin'[t].st \ fin[t].st
       /\ \A t \in Threads :
          /\ IsWrite(t) =>
                \E a \in Addrs :
                    /\ DOMAIN write_set'[t] = DOMAIN write_set[t] \cup {a}
                    /\ write_set'[t][a] = SourceVal(t)
                    /\ \A b \in DOMAIN write_set[t] \ {a} :
                          write_set'[t][b] = write_set[t][b]
          /\ \A a \in fin'[t].st \ fin[t].st :
                /\ a \in DOMAIN write_set[t]
                /\ mem'[a] = write_set[t][a]
                /\ \A b \in Addrs \ {a} : mem'[b] = mem[b]]_vars

\* a transaction wrote one address twice and its tm_end has stored the word
\* of the second write
C11_Witness ==
    \E t \in Threads : \E a \in Addrs :
        /\ pc[t] = "rel_commit"
        /\ fin[t].ws = {a} /\ fin[t].st = {a}
        /\ mem[a] = (MaxOps * (t - 1)) + 2

\* tm_end of thread t has ticked the clock and still knows its wv
Ticked(t) == pc[t] \in {"validate", "store", "rel_commit"}

(* C12: the clock never decreases; a tm_end that reaches (4) obtains the  *)
(* clock value of that moment and leaves the clock greater, so its wv is  *)
(* below the clock ever after, differs from the wv of every other         *)
(* transaction and is greater than every wv obtained before it.           *)
C12_MonotonicClock ==
    /\ [](\A t \in Threads : Ticked(t) => wv[t] < gvc)
    /\ [](\A t, u \in Threads : t # u /\ Ticked(t) /\ Ticked(u)
                                 => wv[t] # wv[u])
    /\ [][/\ gvc' >= gvc
          /\ \A t \in Threads :
                ~Ticked(t) /\ Ticked(t)' => wv'[t] = gvc /\ gvc' > gvc]_vars

\* two tm_end calls are past the tick at once, the second with the greater wv
C12_Witness ==
    \E t, u \in Threads :
        pc[t] = "store" /\ pc[u] = "store" /\ wv[t] < wv[u]

(* C13: a lock that an aborting tm_end frees is left unlocked with the    *)
(* version it carried while held, which is the version it had before this *)
(* tm_end locked it.                                                      *)
C13_AbortRestoresVersion ==
    [][\A t \in Threads :
          pc[t] = "rel_abort" /\ locks_held'[t] # locks_held[t]
          => LET s == Head(locks_held[t])
             IN  /\ ~isLocked(version_and_lock'[s])
                 /\ getVersion(version_and_lock'[s])
                       = getVersion(version_and_lock[s])]_vars

(* C14: outside tm_end a thread holds no lock and no lock bit is set that  *)
(* a running tm_end does not hold; every release frees a lock the thread  *)
(* holds, whose bit is set, and the thread does not hold it afterwards.   *)
C14_FullLockRelease ==
    /\ [](\A t \in Threads : ~InEnd(t) => locks_held[t] = <<>>)
    /\ [](\A s \in Stripes :
             isLocked(version_and_lock[s]) =>
                \E t \in Threads : InEnd(t) /\ t \in Holders(s))
    /\ [][\A t \in Threads :
             Len(locks_held'[t]) < Len(locks_held[t])
             => LET s == Head(locks_held[t])
                IN  /\ locks_held'[t] = Tail(locks_held[t])
                    /\ isLocked(version_and_lock[s])
                    /\ ~isLocked(version_and_lock'[s])
                    /\ \A i \in 1..Len(locks_held'[t]) :
                          locks_held'[t][i] # s]_vars

\* the first tm_end of thread 1, alone, has failed after taking a lock and
\* has returned: the lock it took and freed is unlocked
C14_Witness ==
    /\ pc[1] = "aborted" /\ pc[2] = "idle"
    /\ runs[1] = MaxRuns - 1
    /\ \E s \in StripesOf(fin[1].ws) :
          seen[s] = 1 /\ ~isLocked(version_and_lock[s])

(* C15: tm_end tries each stripe at most once: in loop (3) no write-set    *)
(* entry still to lock lies on a stripe this tm_end holds already, so the  *)
(* lock() to come cannot fail on account of its own lock.                  *)
C15_StripeCoalescing ==
    \A t \in Threads :
        pc[t] = "lock" =>
            \A a \in todo[t] : t \notin Holders(lockIndex(a))

C17_ReadOnlyEnd ==
    [][\A t \in Threads :
          is_ro[t] /\ pc[t] = "active" /\ fin'[t] # NoFin
          => /\ locks_held'[t] = <<>>
             /\ gvc' = gvc
             /\ version_and_lock' = version_and_lock
             /\ mem' = mem]_vars

(* C18: when phase (5) makes tm_end abort, some read-set entry still to    *)
(* validate has a stripe that another transaction holds locked or that     *)
(* carries a version greater than rv; a stripe locked by the validating    *)
(* tm_end itself is no reason to abort.                                    *)
C18_SelfLockedPasses ==
    [][\A t \in Threads :
          pc[t] = "validate" /\ pc'[t] \in {"rel_abort", "aborted"}
          => \E a \in todo[t] :
                LET w == version_and_lock[lockIndex(a)]
                IN  \/ isLocked(w) /\ t \notin Holders(lockIndex(a))
                    \/ getVersion(w) > rv[t]]_vars

\* the threads whose tm_alloc holds list_lock
ListHolders == {t \in Threads : apc[t] \in {"push", "unlock"}}

C20_VersionBelowClock ==
    \A s \in Stripes :
        ~isLocked(version_and_lock[s]) =>
            getVersion(version_and_lock[s]) <= gvc

====
